---- MODULE Spec2Model ----
(***************************************************************************)
(* A model of the newsTTS scripts: the content extractor and the article   *)
(* lister of news_tts_app.py / news_tts_app_enhanced.py, the lister of     *)
(* scrape_riktpunkt.py, the orchestrator process_daily_columns and the     *)
(* text chunker split_text of elevenlabs_tts.py.                           *)
(*                                                                         *)
(* A Python str is a sequence of one-character strings; None and str       *)
(* values are kept apart by a tag (NoneVal, Str(s)).                       *)
(***************************************************************************)
EXTENDS Integers, Sequences, FiniteSets, TLC

VARIABLES
    \* ---- split_text (elevenlabs_tts.py) ----
    text,           \* argument text
    max_length,     \* argument max_length
    chunks,         \* the list split_text returned
    rechunk_of,     \* a returned chunk handed to split_text again
    rechunked,      \* what split_text returned for rechunk_of
    sphase,         \* "idle" | "input" | "split" | "rechunked"
    \* ---- get_column_content (news_tts_app.py, news_tts_app_enhanced.py) ----
    eapp,           \* the application whose extractor runs: "basic" | "enhanced"
    epage,          \* what the GET of the article url answers
    eresult,        \* what get_column_content returned
    ephase,         \* "idle" | "input" | "done"
    \* ---- a run: process_daily_columns, get_daily_sabah_columns, scrape_news ----
    prog,           \* "basic" (news_tts_app.py) | "enhanced"
                    \* (news_tts_app_enhanced.py) | "riktpunkt" (scrape_riktpunkt.py)
                    \* | "elevenlabs" (elevenlabs_tts.py)
    cards,          \* the div.article-card elements of the listing page, in order
    anchors,        \* the a[href] elements of the listing page, in order
    pc,             \* where the run is
    listing_fetch,  \* the answer of the GET of the listing page
    path,           \* the loop the lister ran: "none" | "cards" | "anchors" | "urls"
    listings,       \* how often the listing page was requested
    link_idx,       \* position of the lister's loop
    article_urls,   \* scrape_news: the article urls collected from the links
    columns_data,   \* the articles the lister has accepted so far
                    \* (news_articles in scrape_news)
    fetched,        \* the links whose article page was requested, in order
    columns,        \* what the lister returned
    column_idx,     \* position of "for i, column in enumerate(columns)"
    processed_files,\* the metadata entries of the run
    tts_log,        \* the text_to_speech calls of the run and how each ended
    metadata,       \* the content of the metadata file
    events,         \* the requests, delays, synthesis calls and writes of the
                    \* run, in order: "list" | "sleep" | "get" | "tts" | "meta"
    api_key,        \* the vendor credential of the process environment
                    \* (OPENAI_API_KEY, ELEVENLABS_API_KEY or the prompt's
                    \* answer): "set" | "unset"; "unused" in scrape_riktpunkt.py
    \* ---- process_news_articles (elevenlabs_tts.py) ----
    text_files,     \* the *.txt files of the articles folder, in glob order
    file_idx,       \* position of "for i, text_file in enumerate(text_files, 1)"
    file_parts,     \* parts: the chunks of the article at hand
    part_idx,       \* position of "for part_idx, part in enumerate(parts)"
    successful,     \* the counter successful
    failed,         \* the counter failed
    direct_call,    \* a call of text_to_speech by a user of the class: its
                    \* arguments, what the vendor and the disk did, what it
                    \* returned and left at output_file
    \* ---- main of news_tts_app_enhanced.py and its schedule ----
    enabled,        \* SCHEDULE_CONFIG['enabled']
    now,            \* the wall clock, in minutes since main was started
    first_tick,     \* the first time of day SCHEDULE_CONFIG['time'] after the start
    next_run,       \* the job's next_run
    loop_pc,        \* where main is: "off" | "start" | "initial_run" | "poll" |
                    \* "run_pending" | "sleep" | "run_once" | "stopped" | "exited"
    job,            \* where process_daily_columns is: "idle" | "listing" |
                    \* "per_article" | "metadata_write"
    active,         \* the runs of process_daily_columns in progress
    runs_sched      \* the runs the schedule has started

splitVars == <<text, max_length, chunks, rechunk_of, rechunked, sphase>>

extractVars == <<eapp, epage, eresult, ephase>>

runVars ==
    <<prog, cards, anchors, pc, listing_fetch, path, listings, link_idx, article_urls,
      columns_data, fetched, columns, column_idx, processed_files, tts_log,
      metadata, events, api_key>>

elevenVars ==
    <<text_files, file_idx, file_parts, part_idx, successful, failed, direct_call>>

schedVars ==
    <<enabled, now, first_tick, next_run, loop_pc, job, active, runs_sched>>

vars == <<splitVars, extractVars, runVars, elevenVars, schedVars>>

(***************************************************************************)
(* Bounds of the model.                                                    *)
(***************************************************************************)
MaxTextLen == 7        \* longest text handed to split_text
MaxMaxLength == 5      \* largest max_length handed to split_text
MaxMatched == 2        \* most content selectors that match in one document
MaxCards == 7          \* most cards, and most anchors, of a Daily Sabah listing page
MaxLinks == 11         \* most links of the riktpunkt.nu main page
MaxIrregular == 1      \* most cards (anchors, links) of a page that are not "good"
MaxFiles == 2          \* most *.txt files in the articles folder
MaxTime == 9           \* the minute at which the model's clock stops
Period == 4            \* minutes from one scheduled time to the next (a day)
ArticleMaxLength == 3  \* the max_length process_news_articles is called with

(***************************************************************************)
(* Strings.                                                                *)
(***************************************************************************)
\* The characters texts are built from: a letter, a sentence terminator of
\* the class [.!?] and a whitespace character.
Chars == {"a", ".", " "}

\* The regular expression class [.!?]
IsTerminator(c) == c \in {".", "!", "?"}

\* The regular expression class \s, and what str.strip() removes
IsSpace(c) == c \in {" ", "\n", "\t"}

StringsUpTo(n) == UNION {[1..k -> Chars] : k \in 0..n}

\* The elements of a sequence
Range(s) == {s[k] : k \in 1..Len(s)}

\* The least element of a non-empty set of numbers
Least(S) == CHOOSE k \in S : \A m \in S : k <= m

RECURSIVE lstrip(_)
lstrip(s) ==
    IF s # <<>> /\ IsSpace(Head(s)) THEN lstrip(Tail(s)) ELSE s

RECURSIVE rstrip(_)
rstrip(s) ==
    IF s # <<>> /\ IsSpace(s[Len(s)]) THEN rstrip(SubSeq(s, 1, Len(s) - 1)) ELSE s

\* str.strip()
strip(s) == rstrip(lstrip(s))

\* First index >= i of t whose character does not satisfy the class
\* (Len(t) + 1 when the run reaches the end).
RECURSIVE RunEndTerm(_, _)
RunEndTerm(t, i) ==
    IF i <= Len(t) /\ IsTerminator(t[i]) THEN RunEndTerm(t, i + 1) ELSE i

RECURSIVE RunEndSpace(_, _)
RunEndSpace(t, i) ==
    IF i <= Len(t) /\ IsSpace(t[i]) THEN RunEndSpace(t, i + 1) ELSE i

\* A match of [.!?]+\s+ starting at i: the index after the match, 0 when
\* there is none. Both quantifiers are greedy; a shorter run of terminators
\* is followed by a terminator, never by whitespace.
MatchEnd(t, i) ==
    LET j == RunEndTerm(t, i)
    IN  IF j > i /\ j <= Len(t) /\ IsSpace(t[j]) THEN RunEndSpace(t, j) ELSE 0

\* re.split(r'[.!?]+\s+', t): the pieces between the leftmost matches
RECURSIVE SplitFrom(_, _, _, _)
SplitFrom(t, i, start, acc) ==
    IF i > Len(t) THEN Append(acc, SubSeq(t, start, Len(t)))
    ELSE IF MatchEnd(t, i) # 0
         THEN SplitFrom(t, MatchEnd(t, i), MatchEnd(t, i),
                        Append(acc, SubSeq(t, start, i - 1)))
         ELSE SplitFrom(t, i + 1, start, acc)

re_split(t) == SplitFrom(t, 1, 1, <<>>)

\* The separator split_text puts between two sentences of a chunk
Separator == <<".", " ">>

(***************************************************************************)
(* split_text                                                              *)
(***************************************************************************)
\* The condition of line 228, as a plausible slip would write it: the
\* separator's two characters are not counted.
ExceedsNoSeparator(current_chunk, sentence, maxlen) ==
    Len(current_chunk) + Len(sentence) > maxlen /\ current_chunk # <<>>

\* The condition of line 228 without its "and current_chunk": a sentence
\* longer than max_length closes the still empty first chunk.
ExceedsAlsoWhenEmpty(current_chunk, sentence, maxlen) ==
    Len(current_chunk) + Len(sentence) + 2 > maxlen

\* "len(current_chunk) + len(sentence) + 2 > max_length and current_chunk"
Exceeds(current_chunk, sentence, maxlen) ==
    Len(current_chunk) + Len(sentence) + 2 > maxlen /\ current_chunk # <<>>

\* The loop body as a slip would write it: the closed chunk is not kept.
SplitStepDropping(st, raw, maxlen) ==
    LET sentence == strip(raw)
    IN  IF sentence = <<>> THEN st
        ELSE IF Exceeds(st.current_chunk, sentence, maxlen)
             THEN [chunks |-> st.chunks, current_chunk |-> sentence]
             ELSE [chunks |-> st.chunks,
                   current_chunk |->
                       IF st.current_chunk # <<>>
                       THEN st.current_chunk \o Separator \o sentence
                       ELSE sentence]

\* One iteration of "for sentence in sentences"
SplitStep(st, raw, maxlen) ==
    LET sentence == strip(raw)
    IN  IF sentence = <<>> THEN st
        ELSE IF Exceeds(st.current_chunk, sentence, maxlen)
             THEN [chunks |-> Append(st.chunks, strip(st.current_chunk)),
                   current_chunk |-> sentence]
             ELSE [chunks |-> st.chunks,
                   current_chunk |->
                       IF st.current_chunk # <<>>
                       THEN st.current_chunk \o Separator \o sentence
                       ELSE sentence]

RECURSIVE SplitLoop(_, _, _)
SplitLoop(st, sentences, maxlen) ==
    IF sentences = <<>> THEN st
    ELSE SplitLoop(SplitStep(st, Head(sentences), maxlen), Tail(sentences), maxlen)

\* The end of split_text as a slip would write it: the remaining chunk is
\* not added.
FlushForgotten(st) == st.chunks

\* "if current_chunk.strip(): chunks.append(current_chunk.strip())"
Flush(st) ==
    IF strip(st.current_chunk) # <<>>
    THEN Append(st.chunks, strip(st.current_chunk))
    ELSE st.chunks

split_text(t, maxlen) ==
    Flush(SplitLoop([chunks |-> <<>>, current_chunk |-> <<>>], re_split(t), maxlen))

(***************************************************************************)
(* get_column_content                                                      *)
(***************************************************************************)
NoneVal == [tag |-> "None"]
Str(s) == [tag |-> "str", s |-> s]

\* Python truthiness of an Optional[str]
Truthy(v) == v.tag = "str" /\ v.s # <<>>

\* "Content could not be extracted"
Sentinel ==
    <<"C", "o", "n", "t", "e", "n", "t", " ", "c", "o", "u", "l", "d", " ",
      "n", "o", "t", " ", "b", "e", " ", "e", "x", "t", "r", "a", "c", "t",
      "e", "d">>

\* The content selectors, by their position in the list: 'div.article-content',
\* 'div.content', 'div.post-content', 'article', 'div.entry-content'
NumSelectors == 5
content_selectors == 1..NumSelectors

\* What find_all('p') yields under one element: its paragraphs' texts
\* (p.text) in document order. The elements a document may hold: one
\* without paragraphs, ones with blank paragraphs only, and ones with
\* paragraphs of text, with and without whitespace around it and blank
\* paragraphs between them.
Containers ==
    {<<>>,
     << <<" ">> >>,
     << <<>>, <<" ", " ">> >>,
     << <<"a">> >>,
     << <<" ", "b", " ">>, <<"a">> >>,
     << <<"a">>, <<" ">>, <<"b", " ">> >>,
     << <<" ">>, <<"a", " ", "b">> >>}

\* A parsed document, as far as the extractor looks at it: for each content
\* selector that matches, the paragraphs of the first element it matches
\* (soup.select_one(selector)); a selector outside the domain matches
\* nothing.
Documents ==
    UNION {[S -> Containers] :
              S \in {T \in SUBSET content_selectors : Cardinality(T) <= MaxMatched}}

EmptyDocument == [k \in {} |-> <<>>]

\* What the GET answers: a connection error or timeout (the call raises),
\* a non-2xx status (an error page that matches no content selector), or
\* a 2xx answer with a document.
Pages ==
    {[fetch |-> "conn_error", doc |-> EmptyDocument],
     [fetch |-> "http_error", doc |-> EmptyDocument]}
    \cup {[fetch |-> "ok", doc |-> d] : d \in Documents}

\* '\n'.join(parts)
RECURSIVE JoinLines(_)
JoinLines(parts) ==
    IF parts = <<>> THEN <<>>
    ELSE IF Len(parts) = 1 THEN parts[1]
    ELSE parts[1] \o <<"\n">> \o JoinLines(Tail(parts))

\* "[p.text.strip() for p in paragraphs if p.text.strip()]"
StrippedParagraphs(paragraphs) ==
    SelectSeq([k \in 1..Len(paragraphs) |-> strip(paragraphs[k])],
              LAMBDA s : s # <<>>)

\* The selector loop as a slip would write it, without its break: every
\* selector is tried and the last one that matches gives the content.
RECURSIVE SelectorLoopNoBreak(_, _)
SelectorLoopNoBreak(doc, k) ==
    IF k > NumSelectors THEN <<>>
    ELSE IF k \in DOMAIN doc /\ \A j \in DOMAIN doc : j <= k
         THEN JoinLines(StrippedParagraphs(doc[k]))
         ELSE SelectorLoopNoBreak(doc, k + 1)

\* "for selector in content_selectors: ... if content_div: ... break",
\* from selector k on: the content of the first selector that matches,
\* "" when none does.
RECURSIVE SelectorLoop(_, _)
SelectorLoop(doc, k) ==
    IF k > NumSelectors THEN <<>>
    ELSE IF k \in DOMAIN doc
         THEN JoinLines(StrippedParagraphs(doc[k]))
         ELSE SelectorLoop(doc, k + 1)

\* The end of the extractor as scrape_dailysabah.py has it: None when no
\* content was found.
ContentOrNone(content) ==
    IF content # <<>> THEN Str(content) ELSE NoneVal

\* "return content if content else 'Content could not be extracted'"
ContentOrSentinel(content) ==
    IF content # <<>> THEN Str(content) ELSE Str(Sentinel)

\* Whether the body of the answer reaches BeautifulSoup: the basic
\* application does not call raise_for_status, so it parses an error page;
\* every exception is caught and answered by "return None".
Parsed(app, page) ==
    \/ page.fetch = "ok"
    \/ page.fetch = "http_error" /\ app = "basic"

get_column_content(app, page) ==
    IF Parsed(app, page)
    THEN ContentOrSentinel(SelectorLoop(page.doc, 1))
    ELSE NoneVal

SplitIdle ==
    /\ text = <<>>
    /\ max_length = 1
    /\ chunks = <<>>
    /\ rechunk_of = <<>>
    /\ rechunked = <<>>
    /\ sphase = "idle"

ExtractIdle ==
    /\ eapp = "enhanced"
    /\ epage = [fetch |-> "conn_error", doc |-> EmptyDocument]
    /\ eresult = NoneVal
    /\ ephase = "idle"

(***************************************************************************)
(* The listing pages                                                       *)
(***************************************************************************)
\* FILE_CONFIG['max_columns_per_day']; the basic application's [:5]
max_columns_per_day == 5

\* scrape_news: article_urls[:10]
ScrapeLimit == 10

\* The sequences of up to n elements that are "good" but for at most
\* MaxIrregular of them, which are of the kinds of irregular.
PageSeqs(irregular, n) ==
    UNION {UNION {{[k \in 1..m |-> IF k \in P THEN f[k] ELSE "good"] :
                      f \in [P -> irregular]} :
                  P \in {Q \in SUBSET (1..m) : Cardinality(Q) <= MaxIrregular}} :
           m \in 0..n}

\* An article card is "good" when it has an h3, a div.author-info and an
\* a.card with an href whose page holds text under a content selector. The
\* irregular cards lack the author, the title or the link, have a link
\* without href, or link to a page whose GET fails, answers a non-2xx
\* status, matches no content selector, or matches one without paragraphs;
\* or are a second card of the article of the card before them ("dup"),
\* or link to an article of several paragraphs ("long").
IrregularCards ==
    {"no_author", "no_title", "no_link", "no_href",
     "conn_error", "http_error", "no_match", "empty_box", "dup", "long"}

\* card.select_one('h3')
HasTitle(card) == card # "no_title"

\* card.select_one('div.author-info')
HasAuthor(card) == card # "no_author"

\* card.select_one('a.card')
HasLink(card) == card # "no_link"

\* link_elem.get('href') is a str, not None
HasHref(card) == card \notin {"no_link", "no_href"}

\* The answer of the GET of the article page a card or an anchor links to
PageOf(kind) ==
    CASE kind = "conn_error" -> [fetch |-> "conn_error", doc |-> EmptyDocument]
      [] kind = "http_error" -> [fetch |-> "http_error", doc |-> EmptyDocument]
      [] kind = "no_match"   -> [fetch |-> "ok", doc |-> EmptyDocument]
      [] kind = "empty_box"  -> [fetch |-> "ok", doc |-> (1 :> <<>>)]
      [] kind = "long"       -> [fetch |-> "ok",
                                 doc |-> (1 :> << <<"a">>, <<"a", "a">> >>)]
      [] OTHER               -> [fetch |-> "ok", doc |-> (1 :> << <<"a">> >>)]

\* An anchor of the Daily Sabah page is "good" when its href is that of a
\* column ('/columns/...'), its text is longer than 10 characters and its
\* page holds text. The irregular anchors have an href outside '/columns/',
\* an href that contains '/columns/' and ends with '/columns', a short
\* text, or a page as for the cards; or are a second anchor with the href
\* of the anchor before them ("dup").
IrregularAnchors ==
    {"other_href", "index_href", "short_title",
     "conn_error", "no_match", "empty_box", "dup"}

\* "'/columns/' in href"
InColumns(anchor) == anchor # "other_href"

\* "href.endswith('/columns')"
EndsWithColumns(anchor) == anchor = "index_href"

\* "len(title) > 10"
LongTitle(anchor) == anchor # "short_title"

\* A link of the riktpunkt.nu page is "good" when its href holds a
\* /yyyy/mm/ segment, is the first link to its url and leads to a page with
\* a title and 100 characters of content. The irregular links are undated,
\* repeat the url of the link before them, lead to a page whose GET fails
\* or to a page extract_article_content answers None for.
IrregularLinks == {"undated", "dup", "conn_error", "thin"}

\* "re.search(r'/\d{4}/\d{2}/', href)"
Dated(link) == link # "undated"

\* The url of the k-th link (card, anchor), after the base url is put
\* before a relative href: urls are told apart by the position of their
\* first link.
RECURSIVE UrlOf(_, _)
UrlOf(links, k) ==
    IF links[k] = "dup" /\ k > 1 THEN UrlOf(links, k - 1) ELSE k

\* Lines 26-33 of scrape_news: the dated urls, each once, in link order
RECURSIVE CollectUrls(_, _, _)
CollectUrls(links, k, urls) ==
    IF k > Len(links) THEN urls
    ELSE IF Dated(links[UrlOf(links, k)])
              /\ \A m \in 1..Len(urls) : urls[m] # UrlOf(links, k)
         THEN CollectUrls(links, k + 1, Append(urls, UrlOf(links, k)))
         ELSE CollectUrls(links, k + 1, urls)

\* "article_urls[:10]"
Limited(urls) == SubSeq(urls, 1, IF Len(urls) < ScrapeLimit THEN Len(urls) ELSE ScrapeLimit)

(***************************************************************************)
(* The start of the programs                                               *)
(***************************************************************************)
Apps == {"basic", "enhanced"}

\* "app = NewsTTSApp()" in main: __init__ calls openai.OpenAI(), which
\* raises OpenAIError when neither an api_key argument nor OPENAI_API_KEY
\* is given; neither __init__ nor main catches it, so the program ends
\* by the exception before process_daily_columns is called.
Construct ==
    /\ pc = "start"
    /\ prog \in Apps
    /\ pc' = IF api_key = "set" THEN "idle" ELSE "start_failed"
    /\ UNCHANGED <<splitVars, extractVars, elevenVars, schedVars>>
    /\ UNCHANGED <<api_key, prog, cards, anchors, listing_fetch, path, listings,
                   link_idx, article_urls, columns_data, fetched, columns,
                   column_idx, processed_files, tts_log, metadata, events>>

\* main of elevenlabs_tts.py up to "tts.process_news_articles(...)": with
\* no key in the environment and none typed at the prompt it prints
\* "API key is required. Exiting..." and returns.
ElevenMain ==
    /\ pc = "start"
    /\ prog = "elevenlabs"
    /\ pc' = IF api_key = "set" THEN "idle" ELSE "done"
    /\ UNCHANGED <<splitVars, extractVars, elevenVars, schedVars>>
    /\ UNCHANGED <<api_key, prog, cards, anchors, listing_fetch, path, listings,
                   link_idx, article_urls, columns_data, fetched, columns,
                   column_idx, processed_files, tts_log, metadata, events>>

(***************************************************************************)
(* get_daily_sabah_columns                                                 *)
(***************************************************************************)

\* "if content and content != 'Content could not be extracted'" in the
\* enhanced application, "if content" in the basic one
Accepts(app, content) ==
    IF app = "enhanced"
    THEN Truthy(content) /\ content # Str(Sentinel)
    ELSE Truthy(content)

\* Whether a card is taken up: "if title_elem and link_elem" in the
\* enhanced application, "if title_tag and author_tag and link_tag" in the
\* basic one
CardComplete(app, card) ==
    IF app = "enhanced"
    THEN HasTitle(card) /\ HasLink(card)
    ELSE HasTitle(card) /\ HasAuthor(card) /\ HasLink(card)

\* The dict appended for the k-th card or anchor: the title read from it
\* is told apart by k, the url is that of its link.
Article(k, url, author, content) ==
    [title |-> k, author |-> author, url |-> url, content |-> content.s]

\* "if len(columns_data) >= FILE_CONFIG['max_columns_per_day']: break";
\* the basic application's loop has no break
CapReached(app, data) ==
    app = "enhanced" /\ Len(data) >= max_columns_per_day

\* What the lister returns after its loop: "return columns_data" in the
\* enhanced application, "return columns_data[:5]" in the basic one
Returned(app, data) ==
    IF app = "basic" /\ Len(data) > max_columns_per_day
    THEN SubSeq(data, 1, max_columns_per_day)
    ELSE data

\* What precedes the GET of an article page: the enhanced application's
\* "time.sleep(REQUEST_CONFIG['delay_between_requests'])"; the basic
\* application's loop has no such call.
PolitenessDelay(app) == IF app = "enhanced" THEN <<"sleep">> ELSE <<>>

\* The listing pages the site may answer with: a page of the basic
\* application is its cards; a page of the enhanced application has cards
\* and at most one anchor beside them, or no card and anchors.
ListingPages(app) ==
    IF app = "basic"
    THEN {[cards |-> c, anchors |-> <<>>] : c \in PageSeqs(IrregularCards, MaxCards)}
    ELSE {[cards |-> c, anchors |-> a] :
              c \in PageSeqs(IrregularCards, MaxCards) \ {<<>>},
              a \in {<<>>, <<"good">>}}
         \cup {[cards |-> <<>>, anchors |-> a] :
                  a \in PageSeqs(IrregularAnchors, MaxCards)}

\* The branch as a slip would write it: the anchors are scanned whether or
\* not the page has cards.
UsesFallbackAlways(app, article_cards) == app = "enhanced"

\* "if not article_cards": the enhanced application scans the anchors of a
\* page without cards; the basic application has its loop over the cards
\* only.
UsesFallback(app, article_cards) == app = "enhanced" /\ article_cards = <<>>

\* The GET of the listing page, the first step of process_daily_columns ->
\* get_daily_sabah_columns, and the find_all over the page it answers with.
\* A connection error is caught and answered by []; so is a non-2xx status
\* in the enhanced application (raise_for_status), while the basic
\* application, which does not look at the status, parses the body of the
\* error answer as it parses a page.
FetchListing ==
    /\ pc = "idle"
    /\ prog \in Apps
    /\ \E outcome \in {"ok", "conn_error", "http_error"} :
        /\ listing_fetch' = outcome
        /\ IF outcome = "ok" \/ (outcome = "http_error" /\ prog = "basic")
           THEN /\ \E page \in ListingPages(prog) :
                     /\ cards' = page.cards
                     /\ anchors' = page.anchors
                     /\ pc' = IF UsesFallback(prog, page.cards)
                              THEN "anchors_loop" ELSE "cards_loop"
                     /\ path' = IF UsesFallback(prog, page.cards)
                                THEN "anchors" ELSE "cards"
                /\ UNCHANGED columns
           ELSE /\ pc' = "listed"
                /\ columns' = <<>>
                /\ UNCHANGED <<cards, anchors, path>>
    /\ listings' = listings + 1
    /\ events' = Append(events, "list")
    /\ link_idx' = 1
    /\ columns_data' = <<>>
    /\ UNCHANGED <<splitVars, extractVars, elevenVars, schedVars>>
    /\ UNCHANGED <<api_key, prog, article_urls, fetched, column_idx,
                   processed_files, tts_log, metadata>>

\* The handler as a slip would write it: what was accepted so far is
\* returned.
ReturnPartialOnException(data) == data

\* "except Exception as e: ... return []": what the lister returns when
\* its loop raises, whatever columns_data holds by then
ReturnOnException(data) == <<>>

\* One iteration of "for card in article_cards" (enhanced, lines 133-159)
\* or "for article_card in soup.find_all(...)" (basic, lines 60-79). A link
\* without href raises (None.startswith, link_tag['href']), which the
\* function's except answers by "return []".
VisitCard ==
    /\ pc = "cards_loop"
    /\ link_idx <= Len(cards)
    /\ LET card == cards[link_idx]
           content == get_column_content(prog, PageOf(card))
           author == IF HasAuthor(card) THEN "named" ELSE "Unknown"
           data == Append(columns_data, Article(link_idx, UrlOf(cards, link_idx), author, content))
       IN  IF ~CardComplete(prog, card)
           THEN /\ link_idx' = link_idx + 1
                /\ UNCHANGED <<pc, columns_data, fetched, columns, events>>
           ELSE IF ~HasHref(card)
           THEN /\ pc' = "listed"
                /\ columns' = ReturnOnException(columns_data)
                /\ UNCHANGED <<link_idx, columns_data, fetched, events>>
           ELSE /\ fetched' = Append(fetched, link_idx)
                /\ events' = events \o PolitenessDelay(prog) \o <<"get">>
                /\ IF Accepts(prog, content)
                   THEN /\ columns_data' = data
                        /\ IF CapReached(prog, data)
                           THEN /\ pc' = "listed"
                                /\ columns' = data
                                /\ UNCHANGED link_idx
                           ELSE /\ link_idx' = link_idx + 1
                                /\ UNCHANGED <<pc, columns>>
                   ELSE /\ link_idx' = link_idx + 1
                        /\ UNCHANGED <<pc, columns_data, columns>>
    /\ UNCHANGED <<splitVars, extractVars, elevenVars, schedVars>>
    /\ UNCHANGED <<api_key, prog, cards, anchors, listing_fetch, path, listings,
                   article_urls, column_idx, processed_files, tts_log, metadata>>

\* One iteration of "for link in column_links" (enhanced, lines 109-130)
VisitAnchor ==
    /\ pc = "anchors_loop"
    /\ link_idx <= Len(anchors)
    /\ LET anchor == anchors[link_idx]
           content == get_column_content(prog, PageOf(anchor))
           data == Append(columns_data,
                          Article(link_idx, UrlOf(anchors, link_idx), "Unknown",
                                  content))
       IN  IF ~(InColumns(anchor) /\ ~EndsWithColumns(anchor) /\ LongTitle(anchor))
           THEN /\ link_idx' = link_idx + 1
                /\ UNCHANGED <<pc, columns_data, fetched, columns, events>>
           ELSE /\ fetched' = Append(fetched, link_idx)
                /\ events' = events \o PolitenessDelay(prog) \o <<"get">>
                /\ IF Accepts(prog, content)
                   THEN /\ columns_data' = data
                        /\ IF CapReached(prog, data)
                           THEN /\ pc' = "listed"
                                /\ columns' = data
                                /\ UNCHANGED link_idx
                           ELSE /\ link_idx' = link_idx + 1
                                /\ UNCHANGED <<pc, columns>>
                   ELSE /\ link_idx' = link_idx + 1
                        /\ UNCHANGED <<pc, columns_data, columns>>
    /\ UNCHANGED <<splitVars, extractVars, elevenVars, schedVars>>
    /\ UNCHANGED <<api_key, prog, cards, anchors, listing_fetch, path, listings,
                   article_urls, column_idx, processed_files, tts_log, metadata>>

\* The loop is exhausted: "return columns_data" / "return columns_data[:5]"
ReturnColumns ==
    /\ \/ pc = "cards_loop" /\ link_idx > Len(cards)
       \/ pc = "anchors_loop" /\ link_idx > Len(anchors)
    /\ columns' = Returned(prog, columns_data)
    /\ pc' = "listed"
    /\ UNCHANGED <<splitVars, extractVars, elevenVars, schedVars>>
    /\ UNCHANGED <<api_key, prog, cards, anchors, listing_fetch, path, listings, link_idx,
                   article_urls, columns_data, fetched, column_idx, processed_files,
                   tts_log, metadata, events>>

(***************************************************************************)
(* process_daily_columns                                                   *)
(***************************************************************************)
\* "if not columns"
NoColumns(cols) == cols = <<>>

\* get_daily_sabah_columns has returned: its locals (the parsed page, the
\* loop's position, columns_data) are gone, the list it returned is bound
\* to columns.
LeaveLister ==
    /\ cards' = <<>>
    /\ anchors' = <<>>
    /\ link_idx' = 1
    /\ columns_data' = <<>>

\* The demonstration as a slip would write it: the canned text is
\* synthesized a second time.
RunDemoTwice ==
    /\ pc = "listed"
    /\ NoColumns(columns)
    /\ LeaveLister
    /\ \E first, second \in BOOLEAN :
        tts_log' = tts_log \o <<[item |-> "demo", title |-> 0, ok |-> first],
                                [item |-> "demo", title |-> 0, ok |-> second]>>
    /\ events' = events \o <<"tts", "tts">>
    /\ pc' = "done"
    /\ UNCHANGED <<splitVars, extractVars, elevenVars, schedVars>>
    /\ UNCHANGED <<api_key, prog, listing_fetch, path, listings, article_urls, fetched,
                   columns, column_idx, processed_files, metadata>>

\* "if not columns: ... self.demo_turkish_tts()": one text_to_speech call
\* with the canned text, which gives a path or None; the run returns.
RunDemo ==
    /\ pc = "listed"
    /\ NoColumns(columns)
    /\ LeaveLister
    /\ \E ok \in BOOLEAN :
        tts_log' = Append(tts_log, [item |-> "demo", title |-> 0, ok |-> ok])
    /\ events' = Append(events, "tts")
    /\ pc' = "done"
    /\ UNCHANGED <<splitVars, extractVars, elevenVars, schedVars>>
    /\ UNCHANGED <<api_key, prog, listing_fetch, path, listings, article_urls, fetched,
                   columns, column_idx, processed_files, metadata>>

\* The dict appended to processed_files for a synthesized column: the
\* enhanced application's has the author, the basic application's has
\* not (audio_file, date and file_size are left out of the model).
MetadataEntry(app, column) ==
    IF app = "enhanced"
    THEN [title |-> column.title, author |-> column.author,
          original_url |-> column.url]
    ELSE [title |-> column.title, original_url |-> column.url]

\* The argument as a slip would write it: the first character of the
\* content only.
SynthesisInputCut(column) == SubSeq(column.content, 1, 1)

\* "self.text_to_speech(column['content'], filename)": the text handed to
\* the synthesis call of a column
SynthesisInput(column) == column.content

\* The iteration as a slip would write it: a failed text_to_speech call
\* ends the run.
SynthesizeColumnAborting ==
    /\ pc \in {"listed", "per_article"}
    /\ ~NoColumns(columns)
    /\ column_idx <= Len(columns)
    /\ LeaveLister
    /\ \E ok \in BOOLEAN :
        /\ tts_log' = Append(tts_log,
                             [item |-> "column", title |-> columns[column_idx].title,
                              text |-> SynthesisInput(columns[column_idx]),
                              ok |-> ok])
        /\ processed_files' =
               IF ok
               THEN Append(processed_files, MetadataEntry(prog, columns[column_idx]))
               ELSE processed_files
        /\ pc' = IF ok THEN "per_article" ELSE "done"
    /\ column_idx' = column_idx + 1
    /\ events' = Append(events, "tts")
    /\ UNCHANGED <<splitVars, extractVars, elevenVars, schedVars>>
    /\ UNCHANGED <<api_key, prog, listing_fetch, path, listings, article_urls, fetched,
                   columns, metadata>>

\* One iteration of "for i, column in enumerate(columns, 1)": one
\* text_to_speech call with the column's content, which gives a path or
\* None; an entry is appended for a path.
SynthesizeColumn ==
    /\ pc \in {"listed", "per_article"}
    /\ ~NoColumns(columns)
    /\ column_idx <= Len(columns)
    /\ LeaveLister
    /\ \E ok \in BOOLEAN :
        /\ tts_log' = Append(tts_log,
                             [item |-> "column", title |-> columns[column_idx].title,
                              text |-> SynthesisInput(columns[column_idx]),
                              ok |-> ok])
        /\ processed_files' =
               IF ok
               THEN Append(processed_files, MetadataEntry(prog, columns[column_idx]))
               ELSE processed_files
    /\ column_idx' = column_idx + 1
    /\ events' = Append(events, "tts")
    /\ pc' = "per_article"
    /\ UNCHANGED <<splitVars, extractVars, elevenVars, schedVars>>
    /\ UNCHANGED <<api_key, prog, listing_fetch, path, listings, article_urls, fetched,
                   columns, metadata>>

\* "json.dump(processed_files, f)": the enhanced application catches a
\* failure of the write, the basic application lets it propagate.
WriteMetadata ==
    /\ pc = "per_article"
    /\ column_idx > Len(columns)
    /\ \E ok \in BOOLEAN :
        /\ metadata' = IF ok THEN [written |-> TRUE, entries |-> processed_files]
                       ELSE metadata
        /\ pc' = IF ok \/ prog = "enhanced" THEN "done" ELSE "crashed"
    /\ events' = Append(events, "meta")
    /\ UNCHANGED <<splitVars, extractVars, elevenVars, schedVars>>
    /\ UNCHANGED <<api_key, prog, cards, anchors, listing_fetch, path, listings, link_idx,
                   article_urls, columns_data, fetched, columns, column_idx,
                   processed_files, tts_log>>

(***************************************************************************)
(* scrape_news                                                             *)
(***************************************************************************)
\* The GET of the main page, the find_all over the page it answers with
\* and the collection of the article urls (lines 13-35). A RequestException
\* is answered by "return []".
FetchMainPage ==
    /\ pc = "idle"
    /\ prog = "riktpunkt"
    /\ \E outcome \in {"ok", "conn_error", "http_error"} :
        /\ listing_fetch' = outcome
        /\ IF outcome = "ok"
           THEN /\ \E links \in PageSeqs(IrregularLinks, MaxLinks) :
                     /\ anchors' = links
                     /\ article_urls' = CollectUrls(links, 1, <<>>)
                /\ pc' = "urls_loop"
                /\ path' = "urls"
                /\ UNCHANGED columns
           ELSE /\ pc' = "done"
                /\ columns' = <<>>
                /\ UNCHANGED <<anchors, article_urls, path>>
    /\ listings' = listings + 1
    /\ events' = Append(events, "list")
    /\ link_idx' = 1
    /\ columns_data' = <<>>
    /\ UNCHANGED <<splitVars, extractVars, elevenVars, schedVars>>
    /\ UNCHANGED <<api_key, prog, cards, fetched, column_idx, processed_files, tts_log,
                   metadata>>

\* One iteration of "for i, url in enumerate(article_urls[:10])": the GET
\* of the article page and extract_article_content; a failure of either is
\* answered by "continue".
VisitUrl ==
    /\ pc = "urls_loop"
    /\ link_idx <= Len(Limited(article_urls))
    /\ LET url == Limited(article_urls)[link_idx]
       IN  /\ fetched' = Append(fetched, url)
           /\ events' = events \o <<"sleep", "get">>
           /\ columns_data' =
                  IF anchors[url] \in {"conn_error", "thin"}
                  THEN columns_data
                  ELSE Append(columns_data,
                              [title |-> url, author |-> "Unknown", url |-> url,
                               content |-> <<"a">>])
    /\ link_idx' = link_idx + 1
    /\ UNCHANGED <<splitVars, extractVars, elevenVars, schedVars>>
    /\ UNCHANGED <<api_key, prog, cards, anchors, pc, listing_fetch, path, listings,
                   article_urls, columns, column_idx, processed_files, tts_log,
                   metadata>>

\* "save_results(news_articles) ... return news_articles"
ReturnArticles ==
    /\ pc = "urls_loop"
    /\ link_idx > Len(Limited(article_urls))
    /\ columns' = columns_data
    /\ pc' = "done"
    /\ UNCHANGED <<splitVars, extractVars, elevenVars, schedVars>>
    /\ UNCHANGED <<api_key, prog, cards, anchors, listing_fetch, path, listings, link_idx,
                   article_urls, columns_data, fetched, column_idx, processed_files,
                   tts_log, metadata, events>>

(***************************************************************************)
(* process_news_articles                                                   *)
(***************************************************************************)
\* A file that open() or read() fails on
Unreadable == [readable |-> FALSE, text |-> <<>>]

\* The *.txt files the folder may hold: an unreadable one, an empty and a
\* blank one, one within max_length once stripped, and ones longer than
\* max_length of one, two and three sentences.
TextFiles ==
    {Unreadable}
    \cup {[readable |-> TRUE, text |-> t] :
             t \in {<<>>,
                    <<" ">>,
                    <<" ", "a", "a", " ">>,
                    <<"a", "a", "a", "a", "a">>,
                    <<"a", ".", " ", "a", "a">>,
                    <<"a", ".", " ", "a", ".", " ", "a">>}}

\* The answers of the vendor to the POST of text_to_speech: audio, a
\* non-2xx status (raise_for_status), no answer
ElevenRequests == {"ok", "http_error", "conn_error"}

\* How saving the audio ends: it is written; os.makedirs raises; open
\* raises; f.write raises after open has created the file
ElevenWrites == {"ok", "makedirs_error", "open_error", "write_error"}

\* ElevenLabsSwedishTTS.text_to_speech(text, voice_id, output_file) for an
\* answer of the vendor and an end of the saving: what it returns, and
\* what it leaves at output_file ("none": no file, "audio": the audio,
\* "truncated": a file without the whole audio). output_file is NoneVal or
\* a Str. Every exception is caught and answered by "return False"; so is
\* a call without output_file.
text_to_speech(request, output_file, write) ==
    IF request # "ok" THEN [success |-> FALSE, file |-> "none"]
    ELSE IF ~Truthy(output_file) THEN [success |-> FALSE, file |-> "none"]
    ELSE IF write = "ok" THEN [success |-> TRUE, file |-> "audio"]
    ELSE IF write = "write_error" THEN [success |-> FALSE, file |-> "truncated"]
    ELSE [success |-> FALSE, file |-> "none"]

\* No call of text_to_speech from outside process_news_articles
NoCall == [made |-> FALSE]

\* A user of the class calls text_to_speech(text, voice_id, output_file)
\* once, with an output file or without one (the default, None).
CallTextToSpeech ==
    /\ pc = "idle"
    /\ prog = "elevenlabs"
    /\ \E request \in ElevenRequests, write \in ElevenWrites,
          output_file \in {NoneVal, Str(<<"a">>)} :
          LET result == text_to_speech(request, output_file, write)
          IN  direct_call' =
                  [made |-> TRUE, request |-> request, output_file |-> output_file,
                   write |-> write, success |-> result.success,
                   file |-> result.file]
    /\ events' = Append(events, "tts")
    /\ pc' = "done"
    /\ UNCHANGED <<text_files, file_idx, file_parts, part_idx, successful, failed>>
    /\ UNCHANGED <<splitVars, extractVars, schedVars>>
    /\ UNCHANGED <<api_key, prog, cards, anchors, listing_fetch, path, listings,
                   link_idx, article_urls, columns_data, fetched, columns,
                   column_idx, processed_files, tts_log, metadata>>

\* f"{text_file.stem}.mp3": the name of the audio of an unsplit article;
\* stems are told apart by the file's position, part 0 is "no suffix"
WholeFilename(stem) == [stem |-> stem, part |-> 0]

\* The name as a slip would write it: the parts are numbered from 0.
PartFilenameFromZero(stem, idx) == [stem |-> stem, part |-> idx]

\* f"{text_file.stem}_part{part_idx + 1:02d}.mp3" for the index idx that
\* enumerate(parts) counts from 0
PartFilename(stem, idx) == [stem |-> stem, part |-> idx + 1]

\* The entry of the log of calls for one text_to_speech call of
\* process_news_articles, which joins the output folder and the name
Call(item, stem, part_text, name, result) ==
    [item |-> item, title |-> stem, text |-> part_text, out |-> name,
     ok |-> result.success, file |-> result.file]

\* The counting as a slip would write it: a call that gave False is not
\* counted.
TallySuccessOnly(counters, success) ==
    IF success
    THEN [successful |-> counters.successful + 1, failed |-> counters.failed]
    ELSE counters

\* "if success: successful += 1 else: failed += 1"
Tally(counters, success) ==
    IF success
    THEN [successful |-> counters.successful + 1, failed |-> counters.failed]
    ELSE [successful |-> counters.successful, failed |-> counters.failed + 1]

\* "articles_path.exists()" and "list(articles_path.glob('*.txt'))": a
\* missing folder and a folder without text files end the call at once.
ListTextFiles ==
    /\ pc = "idle"
    /\ prog = "elevenlabs"
    /\ \E folder \in {"missing", "present"} :
       \E files \in UNION {[1..n -> TextFiles] : n \in 0..MaxFiles} :
        IF folder = "missing" \/ files = <<>>
        THEN /\ files = <<>>
             /\ pc' = "done"
             /\ UNCHANGED text_files
        ELSE /\ text_files' = files
             /\ pc' = "files_loop"
    /\ file_idx' = 1
    /\ successful' = 0
    /\ failed' = 0
    /\ UNCHANGED <<file_parts, part_idx, direct_call>>
    /\ UNCHANGED <<splitVars, extractVars, schedVars>>
    /\ UNCHANGED <<api_key, prog, cards, anchors, listing_fetch, path, listings, link_idx,
                   article_urls, columns_data, fetched, columns, column_idx,
                   processed_files, tts_log, metadata, events>>

\* One iteration of "for i, text_file in enumerate(text_files, 1)" up to
\* the loop over the parts: a file that cannot be read (the except branch)
\* and a file that is empty once stripped count as failed; a content
\* longer than max_length is split; any other content is synthesized by
\* one text_to_speech call, which gives True or False, followed by
\* time.sleep(2).
OpenTextFile ==
    /\ pc = "files_loop"
    /\ file_idx <= Len(text_files)
    /\ LET text_file == text_files[file_idx]
           content == strip(text_file.text)
       IN  IF ~text_file.readable \/ content = <<>>
           THEN /\ failed' = failed + 1
                /\ file_idx' = file_idx + 1
                /\ UNCHANGED <<pc, file_parts, part_idx, successful, events,
                               tts_log>>
           ELSE IF Len(content) > ArticleMaxLength
           THEN /\ file_parts' = split_text(content, ArticleMaxLength)
                /\ part_idx' = 1
                /\ IF split_text(content, ArticleMaxLength) = <<>>
                   THEN file_idx' = file_idx + 1 /\ UNCHANGED pc
                   ELSE pc' = "parts_loop" /\ UNCHANGED file_idx
                /\ UNCHANGED <<successful, failed, events, tts_log>>
           ELSE /\ \E request \in ElevenRequests, write \in ElevenWrites :
                     LET result == text_to_speech(request, Str(<<"a">>), write)
                     IN  /\ tts_log' =
                                Append(tts_log,
                                       Call("whole", file_idx, content,
                                            WholeFilename(file_idx), result))
                         /\ LET counters == Tally([successful |-> successful,
                                                  failed |-> failed],
                                                 result.success)
                            IN  /\ successful' = counters.successful
                                /\ failed' = counters.failed
                /\ events' = events \o <<"tts", "sleep">>
                /\ file_idx' = file_idx + 1
                /\ UNCHANGED <<pc, file_parts, part_idx>>
    /\ UNCHANGED <<text_files, direct_call>>
    /\ UNCHANGED <<splitVars, extractVars, schedVars>>
    /\ UNCHANGED <<api_key, prog, cards, anchors, listing_fetch, path, listings, link_idx,
                   article_urls, columns_data, fetched, columns, column_idx,
                   processed_files, metadata>>

\* One iteration of "for part_idx, part in enumerate(parts)": one
\* text_to_speech call, which gives True or False, followed by
\* time.sleep(2); after the last part the loop over the files goes on.
SynthesizePart ==
    /\ pc = "parts_loop"
    /\ part_idx <= Len(file_parts)
    /\ \E request \in ElevenRequests, write \in ElevenWrites :
          LET result == text_to_speech(request, Str(<<"a">>), write)
          IN  /\ tts_log' =
                     Append(tts_log,
                            Call("part", file_idx, file_parts[part_idx],
                                 PartFilename(file_idx, part_idx - 1), result))
              /\ LET counters == Tally([successful |-> successful,
                                       failed |-> failed],
                                      result.success)
                 IN  /\ successful' = counters.successful
                     /\ failed' = counters.failed
    /\ events' = events \o <<"tts", "sleep">>
    /\ part_idx' = part_idx + 1
    /\ IF part_idx = Len(file_parts)
       THEN pc' = "files_loop" /\ file_idx' = file_idx + 1
       ELSE UNCHANGED <<pc, file_idx>>
    /\ UNCHANGED <<text_files, file_parts, direct_call>>
    /\ UNCHANGED <<splitVars, extractVars, schedVars>>
    /\ UNCHANGED <<api_key, prog, cards, anchors, listing_fetch, path, listings, link_idx,
                   article_urls, columns_data, fetched, columns, column_idx,
                   processed_files, metadata>>

\* The loop over the files is exhausted: the summary is printed.
PrintSummary ==
    /\ pc = "files_loop"
    /\ file_idx > Len(text_files)
    /\ events' = Append(events, "summary")
    /\ pc' = "done"
    /\ UNCHANGED elevenVars
    /\ UNCHANGED <<splitVars, extractVars, schedVars>>
    /\ UNCHANGED <<api_key, prog, cards, anchors, listing_fetch, path, listings, link_idx,
                   article_urls, columns_data, fetched, columns, column_idx,
                   processed_files, tts_log, metadata>>

ElevenIdle ==
    /\ text_files = <<>>
    /\ file_idx = 1
    /\ file_parts = <<>>
    /\ part_idx = 1
    /\ successful = 0
    /\ failed = 0
    /\ direct_call = NoCall

\* No metadata file of this run
NoFile == [written |-> FALSE, entries |-> <<>>]

\* The metadata file an earlier run of the same day has left
StaleFile ==
    [written |-> FALSE,
     entries |-> <<[title |-> 0, author |-> "Unknown", original_url |-> 0]>>]

RunIdle ==
    /\ prog = "enhanced"
    /\ cards = <<>>
    /\ anchors = <<>>
    /\ pc = "off"
    /\ listing_fetch = "none"
    /\ path = "none"
    /\ listings = 0
    /\ link_idx = 1
    /\ article_urls = <<>>
    /\ columns_data = <<>>
    /\ fetched = <<>>
    /\ columns = <<>>
    /\ column_idx = 1
    /\ processed_files = <<>>
    /\ tts_log = <<>>
    /\ metadata = NoFile
    /\ events = <<>>
    /\ api_key = "set"

(***************************************************************************)
(* main of news_tts_app_enhanced.py: the schedule, the run at the start    *)
(* and the poll loop. A day is Period minutes long; process_daily_columns  *)
(* is a blocking call that goes through its phases and takes less than a   *)
(* day.                                                                    *)
(***************************************************************************)
SchedIdle ==
    /\ enabled = TRUE
    /\ now = 0
    /\ first_tick = 1
    /\ next_run = 1
    /\ loop_pc = "off"
    /\ job = "idle"
    /\ active = 0
    /\ runs_sched = 0

\* The clock after d more minutes; it stops at MaxTime
Later(t, d) == IF t + d > MaxTime THEN MaxTime ELSE t + d

\* Job.should_run as a slip would write it: the comparison is turned round.
ShouldRunEarly(t, due_at) == t <= due_at

\* schedule's Job.should_run: "datetime.now() >= self.next_run"
ShouldRun(t, due_at) == t >= due_at

\* schedule's Job._schedule_next_run for every().day.at(time), called when
\* the job function has returned: the first scheduled time after now
RECURSIVE NextRunAfter(_, _)
NextRunAfter(t, due_at) ==
    IF due_at > t THEN due_at ELSE NextRunAfter(t, due_at + Period)

\* main as a slip would write it: the branch on SCHEDULE_CONFIG['enabled']
\* is forgotten and the poll loop is always entered.
StartRunAlwaysScheduled ==
    /\ loop_pc = "start"
    /\ job = "idle"
    /\ loop_pc' = "initial_run"
    /\ job' = "listing"
    /\ active' = active + 1
    /\ UNCHANGED <<enabled, now, first_tick, next_run, runs_sched>>
    /\ UNCHANGED <<splitVars, extractVars, runVars, elevenVars>>

\* "result = app.process_daily_columns()": the run at the start when the
\* schedule is enabled, the one run when it is not
StartRun ==
    /\ loop_pc = "start"
    /\ job = "idle"
    /\ loop_pc' = IF enabled THEN "initial_run" ELSE "run_once"
    /\ job' = "listing"
    /\ active' = active + 1
    /\ UNCHANGED <<enabled, now, first_tick, next_run, runs_sched>>
    /\ UNCHANGED <<splitVars, extractVars, runVars, elevenVars>>

\* process_daily_columns up to the return of get_daily_sabah_columns; the
\* requests take their time
JobListing ==
    /\ job = "listing"
    /\ \E d \in {0, 1} : now' = Later(now, d)
    /\ job' = "per_article"
    /\ UNCHANGED <<enabled, first_tick, next_run, loop_pc, active, runs_sched>>
    /\ UNCHANGED <<splitVars, extractVars, runVars, elevenVars>>

\* The synthesis calls of the run (the articles', or the demonstration's)
JobSynthesize ==
    /\ job = "per_article"
    /\ \E d \in {0, 1} : now' = Later(now, d)
    /\ job' = "metadata_write"
    /\ UNCHANGED <<enabled, first_tick, next_run, loop_pc, active, runs_sched>>
    /\ UNCHANGED <<splitVars, extractVars, runVars, elevenVars>>

\* process_daily_columns returns to its caller: to main after the run at
\* the start, or to schedule.run_pending, which sets the job's next_run
\* and returns to the loop's "time.sleep(60)".
JobReturn ==
    /\ job = "metadata_write"
    /\ job' = "idle"
    /\ active' = active - 1
    /\ IF loop_pc = "run_pending"
       THEN /\ next_run' = NextRunAfter(now, next_run)
            /\ loop_pc' = "sleep"
       ELSE /\ loop_pc' = IF loop_pc = "initial_run" THEN "poll" ELSE "exited"
            /\ UNCHANGED next_run
    /\ UNCHANGED <<enabled, now, first_tick, runs_sched>>
    /\ UNCHANGED <<splitVars, extractVars, runVars, elevenVars>>

\* "schedule.run_pending()": the job is run, in this thread, when it is
\* due; else the loop goes on to its sleep.
RunPending ==
    /\ loop_pc = "poll"
    /\ IF ShouldRun(now, next_run)
       THEN /\ loop_pc' = "run_pending"
            /\ job' = "listing"
            /\ active' = active + 1
            /\ runs_sched' = runs_sched + 1
       ELSE /\ loop_pc' = "sleep"
            /\ UNCHANGED <<job, active, runs_sched>>
    /\ UNCHANGED <<enabled, now, first_tick, next_run>>
    /\ UNCHANGED <<splitVars, extractVars, runVars, elevenVars>>

\* "time.sleep(60)"
Sleep60 ==
    /\ loop_pc = "sleep"
    /\ now' = Later(now, 1)
    /\ loop_pc' = "poll"
    /\ UNCHANGED <<enabled, first_tick, next_run, job, active, runs_sched>>
    /\ UNCHANGED <<splitVars, extractVars, runVars, elevenVars>>

\* Ctrl+C: "except KeyboardInterrupt" ends the loop, whatever it was at;
\* during the run at the start it ends the program.
KeyboardInterrupt ==
    /\ loop_pc \in {"initial_run", "poll", "run_pending", "sleep", "run_once"}
    /\ loop_pc' = "stopped"
    /\ job' = "idle"
    /\ active' = 0
    /\ UNCHANGED <<enabled, now, first_tick, next_run, runs_sched>>
    /\ UNCHANGED <<splitVars, extractVars, runVars, elevenVars>>

\* main is started at some time of day: the first scheduled time is up to
\* a day ahead.
SchedInit ==
    /\ enabled \in BOOLEAN
    /\ now = 0
    /\ first_tick \in 1..Period
    /\ next_run = first_tick
    /\ loop_pc = "start"
    /\ job = "idle"
    /\ active = 0
    /\ runs_sched = 0
    /\ SplitIdle
    /\ ExtractIdle
    /\ RunIdle
    /\ ElevenIdle

SchedNext ==
    \/ StartRun
    \/ JobListing
    \/ JobSynthesize
    \/ JobReturn
    \/ RunPending
    \/ Sleep60
    \/ KeyboardInterrupt

\* The program runs on unless it is interrupted: the steps of main and of
\* the run are taken; the interrupt need not come.
SchedFairness ==
    /\ WF_vars(StartRun)
    /\ WF_vars(JobListing)
    /\ WF_vars(JobSynthesize)
    /\ WF_vars(JobReturn)
    /\ WF_vars(RunPending)
    /\ WF_vars(Sleep60)

SpecSched == SchedInit /\ [][SchedNext]_vars /\ SchedFairness

(***************************************************************************)
(* The specification of a run: one of the programs is run once.            *)
(***************************************************************************)
\* One of the programs is started; nothing is fetched yet. The vendor
\* credential is in the environment or it is not. The output
\* directory holds no metadata file of the day, or one of an earlier run.
Init ==
    /\ prog \in {"basic", "enhanced", "riktpunkt", "elevenlabs"}
    /\ cards = <<>>
    /\ anchors = <<>>
    /\ pc = IF prog = "riktpunkt" THEN "idle" ELSE "start"
    /\ api_key \in IF prog = "riktpunkt" THEN {"unused"} ELSE {"set", "unset"}
    /\ listing_fetch = "none"
    /\ path = "none"
    /\ listings = 0
    /\ link_idx = 1
    /\ article_urls = <<>>
    /\ columns_data = <<>>
    /\ fetched = <<>>
    /\ columns = <<>>
    /\ column_idx = 1
    /\ processed_files = <<>>
    /\ tts_log = <<>>
    /\ metadata \in IF prog \in Apps THEN {NoFile, StaleFile} ELSE {NoFile}
    /\ events = <<>>
    /\ ElevenIdle
    /\ SchedIdle
    /\ SplitIdle
    /\ ExtractIdle

Next ==
    \/ Construct
    \/ ElevenMain
    \/ FetchListing
    \/ VisitCard
    \/ VisitAnchor
    \/ ReturnColumns
    \/ RunDemo
    \/ SynthesizeColumn
    \/ WriteMetadata
    \/ FetchMainPage
    \/ VisitUrl
    \/ ReturnArticles
    \/ ListTextFiles
    \/ CallTextToSpeech
    \/ OpenTextFile
    \/ SynthesizePart
    \/ PrintSummary

Spec == Init /\ [][Next]_vars

(***************************************************************************)
(* The specification of termination: news_tts_app_enhanced.py runs on.     *)
(* A behaviour is either one run of process_daily_columns, step by step    *)
(* over its listing page, or main with its schedule, where a run is the    *)
(* three phases of the schedule's model. Sequential code goes on to its    *)
(* next statement, every request has a timeout and so an outcome, hence    *)
(* every step that can be taken is taken; the interrupt need not come.     *)
(***************************************************************************)
TermInit ==
    \/ Init /\ prog = "enhanced"
    \/ SchedInit

TermNext ==
    \/ Construct
    \/ FetchListing
    \/ VisitCard
    \/ VisitAnchor
    \/ ReturnColumns
    \/ RunDemo
    \/ SynthesizeColumn
    \/ WriteMetadata
    \/ StartRun
    \/ JobListing
    \/ JobSynthesize
    \/ JobReturn
    \/ RunPending
    \/ Sleep60
    \/ KeyboardInterrupt

\* The next statement of the run after the listing request
RunStep ==
    \/ Construct
    \/ VisitCard
    \/ VisitAnchor
    \/ ReturnColumns
    \/ RunDemo
    \/ SynthesizeColumn
    \/ WriteMetadata

\* The listing request yields an outcome: the step disables itself, so its weak
\* fairness WF_vars(FetchListing) is the same as being disabled again and again
TermFairness ==
    /\ []<>(~ENABLED <<FetchListing>>_vars)
    /\ WF_vars(RunStep)
    /\ SchedFairness

SpecTerm == TermInit /\ [][TermNext]_vars /\ TermFairness

(***************************************************************************)
(* Properties of the listers and of process_daily_columns                  *)
(***************************************************************************)
\* get_daily_sabah_columns is at its return: columns is the list it
\* returns, the page it parsed is still at hand
Listed == prog \in Apps /\ pc = "listed"

\* The content of a page extracts successfully: get_column_content gives
\* a text, neither None nor "" nor the sentinel.
Extracts(app, page) ==
    LET content == get_column_content(app, page)
    IN  content.tag = "str" /\ content.s # <<>> /\ content.s # Sentinel

\* The links of the listing page that qualify, on the path the lister
\* takes: the cards with a title and a link, or else the anchors to a
\* column with a long text, whose page extracts successfully.
QualifyingLinks ==
    IF cards # <<>> \/ prog = "basic"
    THEN {k \in 1..Len(cards) :
            /\ HasTitle(cards[k]) /\ HasLink(cards[k]) /\ HasHref(cards[k])
            /\ Extracts(prog, PageOf(cards[k]))}
    ELSE {k \in 1..Len(anchors) :
            /\ InColumns(anchors[k]) /\ ~EndsWithColumns(anchors[k])
            /\ LongTitle(anchors[k])
            /\ Extracts(prog, PageOf(anchors[k]))}

\* The n smallest elements of a set of numbers, in order
RECURSIVE FirstOf(_, _)
FirstOf(S, n) ==
    IF n = 0 \/ S = {} THEN <<>>
    ELSE <<Least(S)>> \o FirstOf(S \ {Least(S)}, n - 1)

\* C3: no article returned by get_daily_sabah_columns, in either
\* application, has a content that is empty or the extraction sentinel.
C3_NoMissedExtractionReturned ==
    Listed =>
        \A k \in 1..Len(columns) :
            columns[k].content # <<>> /\ columns[k].content # Sentinel

\* C8: when the listing page holds more qualifying articles than
\* max_columns_per_day, get_daily_sabah_columns returns exactly that many
\* articles, the first qualifying ones in document order.
C8_FirstCapQualifying ==
    (Listed /\ listing_fetch = "ok"
        /\ Cardinality(QualifyingLinks) > max_columns_per_day) =>
        /\ Len(columns) = max_columns_per_day
        /\ [k \in 1..Len(columns) |-> columns[k].title]
               = FirstOf(QualifyingLinks, max_columns_per_day)

\* The lister's loop was left by an exception (a link without href)
AbortedByException ==
    /\ Listed
    /\ listing_fetch = "ok"
    /\ link_idx <= Len(cards)
    /\ CardComplete(prog, cards[link_idx])
    /\ ~HasHref(cards[link_idx])

\* The links the lister is to request: the complete cards with an href,
\* or else the anchors that pass the filter, or the collected urls.
CandidateLinks ==
    IF prog = "riktpunkt" THEN Range(article_urls)
    ELSE IF cards # <<>>
    THEN {k \in 1..Len(cards) : CardComplete(prog, cards[k]) /\ HasHref(cards[k])}
    ELSE {k \in 1..Len(anchors) :
            /\ InColumns(anchors[k]) /\ ~EndsWithColumns(anchors[k])
            /\ LongTitle(anchors[k])}

\* C9: the cap counts accepted articles, not visited links. When the
\* enhanced get_daily_sabah_columns or scrape_news returns, other than by
\* an exception that left the loop, either as many articles as the cap are
\* accepted or every link was requested: a link whose fetch or extraction
\* failed has not used up a slot.
C9_CapCountsAccepted ==
    /\ (prog = "enhanced" /\ Listed /\ listing_fetch = "ok"
            /\ ~AbortedByException) =>
           \/ Len(columns) = max_columns_per_day
           \/ CandidateLinks \subseteq Range(fetched)
    /\ (prog = "riktpunkt" /\ pc = "done" /\ listing_fetch = "ok") =>
           \/ Len(columns) = ScrapeLimit
           \/ CandidateLinks \subseteq Range(fetched)

\* C10: when the listing page has no article card and no qualifying
\* fallback anchor, get_daily_sabah_columns returns the empty list; and a
\* run whose lister returned the empty list synthesizes the demonstration
\* text once and ends: one text_to_speech call, none for an article, and
\* one request of the listing page.
C10_DemoExactlyOnce ==
    /\ (Listed /\ cards = <<>> /\ QualifyingLinks = {}) => columns = <<>>
    /\ (prog \in Apps /\ pc \in {"per_article", "crashed"}) => columns # <<>>
    /\ (prog \in Apps /\ pc = "listed" /\ columns = <<>>) =>
           tts_log = <<>> /\ listings = 1
    /\ (prog \in Apps /\ pc = "done" /\ columns = <<>>) =>
           /\ Len(tts_log) = 1
           /\ tts_log[1].item = "demo"
           /\ listings = 1

\* A run of the enhanced application over a fetched page without cards,
\* whose anchors were requested and gave no content, has ended with the
\* demonstration.
C10_Witness ==
    /\ prog = "enhanced"
    /\ listing_fetch = "ok"
    /\ path = "anchors"
    /\ fetched # <<>>
    /\ columns = <<>>
    /\ pc = "done"
    /\ Len(tts_log) = 1
    /\ tts_log[1].item = "demo"

\* The text_to_speech calls of the run that wrote their audio file
AudioFiles == {k \in 1..Len(tts_log) : tts_log[k].ok}

\* C11: every completed run of process_daily_columns has written at least
\* one audio file.
C11_AudioEveryRun ==
    (prog \in Apps /\ pc = "done") => AudioFiles # {}

\* The urls of the links of the page whose article the lister's loop
\* accepts when it comes to them
AcceptedLinks ==
    IF prog = "riktpunkt"
    THEN {u \in Range(Limited(article_urls)) : anchors[u] \notin {"conn_error", "thin"}}
    ELSE IF path = "cards"
    THEN {UrlOf(cards, k) : k \in {m \in 1..Len(cards) :
            /\ CardComplete(prog, cards[m]) /\ HasHref(cards[m])
            /\ Accepts(prog, get_column_content(prog, PageOf(cards[m])))}}
    ELSE {UrlOf(anchors, k) : k \in {m \in 1..Len(anchors) :
            /\ InColumns(anchors[m]) /\ ~EndsWithColumns(anchors[m])
            /\ LongTitle(anchors[m])
            /\ Accepts(prog, get_column_content(prog, PageOf(anchors[m])))}}

\* The urls of the returned articles
ReturnedUrls == {columns[k].url : k \in 1..Len(columns)}

\* C12: an error while handling one article only skips that article. When
\* a lister returns after a fetched listing page, every article its loop
\* accepts, before and after a failing one, is returned, unless the cap cut
\* the list.
C12_ArticleErrorSkips ==
    /\ (Listed /\ listing_fetch = "ok") =>
           \/ Len(columns) = max_columns_per_day
           \/ AcceptedLinks \subseteq ReturnedUrls
    /\ (prog = "riktpunkt" /\ pc = "done" /\ listing_fetch = "ok") =>
           AcceptedLinks \subseteq ReturnedUrls

\* C13: when the GET of the listing page fails (connection error, timeout
\* or non-2xx status) no article page is requested in that run and the
\* lister returns the empty list.
C13_ListingFailureAborts ==
    (prog \in {"basic", "enhanced", "riktpunkt"}
        /\ listing_fetch \in {"conn_error", "http_error"}) =>
        /\ fetched = <<>>
        /\ columns = <<>>
        /\ columns_data = <<>>

\* How often an event is in a trace
RECURSIVE Count(_, _)
Count(trace, e) ==
    IF trace = <<>> THEN 0
    ELSE (IF Head(trace) = e THEN 1 ELSE 0) + Count(Tail(trace), e)

\* The text_to_speech calls process_news_articles is to make for a list of
\* files: one for each part of a content longer than max_length, one for
\* any other content that is not blank, none for a file that cannot be read.
RECURSIVE CallsDue(_)
CallsDue(files) ==
    IF files = <<>> THEN 0
    ELSE LET content == strip(Head(files).text)
         IN  (IF ~Head(files).readable \/ content = <<>> THEN 0
              ELSE IF Len(content) > ArticleMaxLength
              THEN Len(split_text(content, ArticleMaxLength))
              ELSE 1)
             + CallsDue(Tail(files))

\* C14: a failed synthesis is skipped and the run goes on. While
\* process_daily_columns walks its articles, text_to_speech has been called
\* once for every article before the one at hand, whatever each call gave,
\* and the run ends only after a call for every article and the metadata
\* write; process_news_articles ends only after a call for every part and
\* every unsplit article, with the summary, every call counted as
\* successful or failed.
C14_SynthesisFailureSkips ==
    /\ (prog \in Apps /\ columns # <<>> /\ pc \in {"per_article", "done", "crashed"}) =>
           /\ Len(tts_log) = column_idx - 1
           /\ \A k \in 1..Len(tts_log) :
                  tts_log[k].item = "column" /\ tts_log[k].title = columns[k].title
           /\ pc \in {"done", "crashed"} =>
                  /\ Len(tts_log) = Len(columns)
                  /\ events[Len(events)] = "meta"
    /\ (prog = "elevenlabs" /\ pc = "done" /\ text_files # <<>>) =>
           /\ Count(events, "tts") = CallsDue(text_files)
           /\ events[Len(events)] = "summary"
           /\ successful + failed >= CallsDue(text_files)

\* process_news_articles has ended over a folder whose files all hold
\* text, one of them split into several parts: calls have failed and calls
\* have succeeded, and every call due was made.
C14_Witness ==
    /\ prog = "elevenlabs"
    /\ pc = "done"
    /\ \A k \in 1..Len(text_files) :
           text_files[k].readable /\ strip(text_files[k].text) # <<>>
    /\ Len(file_parts) >= 2
    /\ failed >= 1
    /\ successful >= 1
    /\ Count(events, "tts") = CallsDue(text_files)
    /\ Count(events, "tts") >= 3

\* C15: in every run, every request of an article page is immediately
\* preceded by one delay, on the card path, on the fallback-anchor path
\* and in scrape_news.
C15_DelayBeforeEveryFetch ==
    prog \in {"basic", "enhanced", "riktpunkt"} =>
        \A k \in 1..Len(events) :
            events[k] = "get" => (k > 1 /\ events[k - 1] = "sleep")

\* C16: no two text_to_speech calls of a run follow each other without a
\* delay between them, in process_news_articles as in
\* process_daily_columns.
C16_DelayBetweenSyntheses ==
    \A k \in 1..Len(events) :
        (events[k] = "tts" /\ k > 1) => events[k - 1] # "tts"

\* C17: every run of process_daily_columns goes Idle -> Listing ->
\* PerArticle -> MetadataWrite -> Idle: the listing, with its article
\* requests, is over before the first synthesis call; the metadata write
\* comes once, after the last synthesis call; and no run returns without
\* the metadata write.
C17_RunOrder ==
    prog \in Apps =>
        /\ \A k \in 1..Len(events) :
               /\ events[k] = "list" => k = 1
               /\ events[k] \in {"sleep", "get"} =>
                      \A j \in 1..k : events[j] \notin {"tts", "meta"}
               /\ events[k] = "meta" => k = Len(events)
        /\ pc \in {"cards_loop", "anchors_loop", "listed", "per_article"} =>
               events # <<>> /\ events[1] = "list"
        /\ pc = "done" =>
               /\ events[1] = "list"
               /\ events[Len(events)] = "meta"

\* The entries due in the metadata document: one for each column whose
\* text_to_speech call gave a path, in the order of the listing, with the
\* column's title, author and url.
RECURSIVE EntriesDue(_)
EntriesDue(k) ==
    IF k = 0 THEN <<>>
    ELSE IF tts_log[k].ok
         THEN Append(EntriesDue(k - 1),
                     [title |-> columns[k].title, author |-> columns[k].author,
                      original_url |-> columns[k].url])
         ELSE EntriesDue(k - 1)

\* C19: the metadata document a run of process_daily_columns has written
\* holds exactly one entry for each article whose synthesis succeeded in
\* that run, in listing order, with the article's title, author and url:
\* none for a failed synthesis, none of an earlier run.
C19_MetadataEntries ==
    (prog \in Apps /\ metadata.written) =>
        /\ Len(tts_log) = Len(columns)
        /\ metadata.entries = EntriesDue(Len(columns))

\* C20: a failure of the metadata write is caught: the run does not
\* raise, it returns its processed entries, one for each audio file
\* written in the run, and these files stay in place.
C20_MetadataWriteFailureCaught ==
    (prog \in Apps /\ events # <<>> /\ events[Len(events)] = "meta"
        /\ ~metadata.written) =>
        /\ pc = "done"
        /\ Len(processed_files) = Cardinality(AudioFiles)
        /\ Len(tts_log) = Len(columns)

\* C21: with the vendor's credential absent the program sends no synthesis
\* request and does not end by an exception: text-to-speech is unavailable,
\* the process is not brought down.
C21_MissingCredentialNoCrash ==
    api_key = "unset" =>
        /\ tts_log = <<>>
        /\ Count(events, "tts") = 0
        /\ pc \notin {"start_failed", "crashed"}

\* C22: the fallback anchor scan is used exactly when the listing page
\* has no article card. While the lister runs and at its return: the
\* anchors' loop ran if and only if the page has no card (and the
\* application has the fallback); on a page with cards every page
\* requested is that of a card with title and link, whatever became of
\* the cards; on a page without cards every page requested is that of an
\* anchor whose href contains '/columns/' and does not end in '/columns'
\* and whose text is longer than 10 characters.
C22_FallbackOnlyWithoutCards ==
    (prog \in Apps /\ pc \in {"cards_loop", "anchors_loop", "listed"}
        /\ path # "none") =>
        /\ path = "anchors" <=> (prog = "enhanced" /\ cards = <<>>)
        /\ pc = "anchors_loop" => path = "anchors"
        /\ pc = "cards_loop" => path = "cards"
        /\ path = "cards" =>
               \A k \in Range(fetched) :
                   /\ k \in 1..Len(cards)
                   /\ HasTitle(cards[k]) /\ HasLink(cards[k]) /\ HasHref(cards[k])
        /\ path = "anchors" =>
               \A k \in Range(fetched) :
                   /\ k \in 1..Len(anchors)
                   /\ InColumns(anchors[k])
                   /\ ~EndsWithColumns(anchors[k])
                   /\ LongTitle(anchors[k])

\* The enhanced application's lister is at its return over a page whose
\* one card was turned down and which has a column's anchor beside it: no
\* page was requested, the anchor's neither, and the list is empty.
C22_Witness ==
    /\ prog = "enhanced"
    /\ pc = "listed"
    /\ listing_fetch = "ok"
    /\ Len(cards) = 1
    /\ anchors = <<"good">>
    /\ path = "cards"
    /\ fetched = <<>>
    /\ columns = <<>>

\* The calls process_news_articles is to make for the file at position
\* stem, as (text, output name) pairs: none for a file that cannot be read
\* or is blank, one with the whole content and the name without suffix
\* for a content within max_length, one for each chunk of split_text, in
\* order, with the suffixes 1, 2, ... for a longer content.
CallsForFile(stem, text_file) ==
    LET content == strip(text_file.text)
        parts == split_text(content, ArticleMaxLength)
    IN  IF ~text_file.readable \/ content = <<>> THEN <<>>
        ELSE IF Len(content) <= ArticleMaxLength
        THEN << <<content, [stem |-> stem, part |-> 0]>> >>
        ELSE [j \in 1..Len(parts) |-> <<parts[j], [stem |-> stem, part |-> j]>>]

\* The calls made for the file at position stem, in order
CallsMadeFor(stem) ==
    LET made == SelectSeq(tts_log, LAMBDA c : c.title = stem)
    IN  [j \in 1..Len(made) |-> <<made[j].text, made[j].out>>]

\* C23 as stated: at the end of process_news_articles every readable
\* article whose content is not longer than max_length has had exactly
\* one synthesis call, with the whole content and the output <stem>.mp3,
\* and every longer one exactly one call per chunk of split_text, in chunk
\* order, with the outputs <stem>_part01.mp3, <stem>_part02.mp3, ...
C23_OneCallUnlessLonger ==
    (prog = "elevenlabs" /\ pc = "done" /\ text_files # <<>>) =>
        \A stem \in 1..Len(text_files) :
            text_files[stem].readable =>
                LET content == strip(text_files[stem].text)
                    parts == split_text(content, ArticleMaxLength)
                IN  CallsMadeFor(stem) =
                        IF Len(content) <= ArticleMaxLength
                        THEN << <<content, [stem |-> stem, part |-> 0]>> >>
                        ELSE [j \in 1..Len(parts) |->
                                 <<parts[j], [stem |-> stem, part |-> j]>>]

\* C23, amended: the calls of process_news_articles are, file after file,
\* those due for each file: one call with the whole content and the output
\* <stem>.mp3 for a content that is not empty and not longer than
\* max_length, one call per chunk of split_text, in chunk order, numbered
\* from 1, for a longer content, and no call for a file whose content is
\* empty once stripped.
C23_OneCallUnlessLongerOrEmpty ==
    /\ (prog = "elevenlabs" /\ pc = "done" /\ text_files # <<>>) =>
            \A stem \in 1..Len(text_files) :
                CallsMadeFor(stem) = CallsForFile(stem, text_files[stem])
    /\ prog = "elevenlabs" =>
            \A k \in 1..Len(tts_log) :
                /\ tts_log[k].title <= file_idx
                /\ k > 1 => tts_log[k - 1].title <= tts_log[k].title

\* process_news_articles has ended over a folder with a file of three
\* chunks, which had three calls, and a file within max_length, which had
\* one.
C23_Witness ==
    /\ prog = "elevenlabs"
    /\ pc = "done"
    /\ Len(text_files) = 2
    /\ Len(CallsForFile(1, text_files[1])) = 3
    /\ Len(CallsMadeFor(1)) = 3
    /\ tts_log[3].out = [stem |-> 1, part |-> 3]
    /\ Len(strip(text_files[2].text)) \in 1..ArticleMaxLength
    /\ Len(CallsMadeFor(2)) = 1
    /\ tts_log[4].out = [stem |-> 2, part |-> 0]

\* The files among the first k that process_news_articles leaves without
\* a call: those it cannot read and those that are blank
SkippedFiles(k) ==
    {m \in 1..k : ~text_files[m].readable \/ strip(text_files[m].text) = <<>>}

\* The audio files written in the run
AudioWritten == {tts_log[k].out : k \in {m \in 1..Len(tts_log) : tts_log[m].file = "audio"}}

\* The counters account for every call made and every file left so far,
\* and successful is the number of audio files written.
CountersAccount ==
    (prog = "elevenlabs" /\ pc \in {"files_loop", "parts_loop", "done"}
        /\ text_files # <<>>) =>
        /\ successful + failed
               = Len(tts_log) + Cardinality(SkippedFiles(file_idx - 1))
        /\ successful = Cardinality(AudioWritten)
        /\ successful = Cardinality({k \in 1..Len(tts_log) : tts_log[k].ok})
        /\ pc = "done" =>
               /\ file_idx = Len(text_files) + 1
               /\ events[Len(events)] = "summary"

\* A step of the run adds one to one counter when it makes a call or
\* leaves a file, and changes no counter otherwise.
CountersStep ==
    prog = "elevenlabs" =>
        /\ successful' \in {successful, successful + 1}
        /\ failed' \in {failed, failed + 1}
        /\ (successful' + failed') - (successful + failed)
               = (Len(tts_log') - Len(tts_log))
                 + (IF pc = "files_loop" /\ file_idx <= Len(text_files)
                       /\ file_idx \in SkippedFiles(file_idx)
                    THEN 1 ELSE 0)

C25_ExceptionDiscardsAccepted ==
    AbortedByException => columns = <<>>

\* The lister is at its return after a card without href was met, with
\* articles accepted from the cards before it: the list returned is empty.
C25_Witness ==
    /\ AbortedByException
    /\ Len(columns_data) >= 2
    /\ Len(fetched) >= 2
    /\ columns = <<>>

\* The urls whose page the lister has requested, in order
FetchedUrls ==
    IF prog = "riktpunkt" THEN fetched
    ELSE [k \in 1..Len(fetched) |->
             UrlOf(IF path = "anchors" THEN anchors ELSE cards, fetched[k])]

\* No element of a sequence is in it twice
Distinct(seq) ==
    \A i, j \in 1..Len(seq) : i # j => seq[i] # seq[j]

\* C26: within one listing run no article url is requested twice, and the
\* articles a lister returns have pairwise distinct urls, in scrape_news
\* and on both paths of get_daily_sabah_columns, also when the listing
\* page links to an article more than once.
C26_UrlsFetchedOnce ==
    /\ (Listed \/ (prog = "riktpunkt" /\ pc \in {"urls_loop", "done"})) =>
           Distinct(FetchedUrls)
    /\ (Listed \/ (prog = "riktpunkt" /\ pc = "done")) =>
           Distinct([k \in 1..Len(columns) |-> columns[k].url])

\* C27: ElevenLabsSwedishTTS.text_to_speech returns True only if the
\* vendor's answer was good and the audio was written to output_file; a
\* call without output_file returns False though the answer was good; and
\* a call that returns False has left no file.
C27_TrueOnlyWhenWritten ==
    direct_call.made =>
        /\ direct_call.success =>
               /\ direct_call.request = "ok"
               /\ Truthy(direct_call.output_file)
               /\ direct_call.write = "ok"
               /\ direct_call.file = "audio"
        /\ (direct_call.request = "ok" /\ direct_call.output_file = NoneVal) =>
               ~direct_call.success
        /\ ~direct_call.success => direct_call.file = "none"

\* C28 as stated: the synthesis calls of a run of process_daily_columns
\* are one per listed article, in listing order, each with the article's
\* whole content, so that at the end of every run number of metadata
\* entries <= number of calls = number of listed articles <=
\* max_columns_per_day.
C28_CallsEqualListed ==
    (prog \in Apps /\ pc \in {"done", "crashed"}) =>
        /\ Len(processed_files) <= Len(tts_log)
        /\ Len(tts_log) = Len(columns)
        /\ \A k \in 1..Len(tts_log) :
               /\ tts_log[k].title = columns[k].title
               /\ tts_log[k].text = columns[k].content
        /\ Len(columns) <= max_columns_per_day

\* C28, amended: over a listing that is not empty process_daily_columns
\* makes exactly one synthesis call per listed article, in listing order,
\* with the article's whole content, and none again after a call that
\* failed: while the run walks its articles the calls made are those of
\* the articles before the one at hand, and at its end number of metadata
\* entries <= number of calls = number of listed articles <=
\* max_columns_per_day. Over an empty listing the run makes one call, that
\* of the demonstration, and writes no metadata.
C28_OneCallPerArticle ==
    /\ prog \in Apps => Len(columns) <= max_columns_per_day
    /\ (prog \in Apps /\ columns = <<>> /\ pc = "done") =>
           /\ Len(tts_log) = 1
           /\ tts_log[1].item = "demo"
           /\ processed_files = <<>>
           /\ ~metadata.written
    /\ (prog \in Apps /\ columns # <<>>
           /\ pc \in {"per_article", "done", "crashed"}) =>
           /\ Len(tts_log) = column_idx - 1
           /\ Len(tts_log) <= Len(columns)
           /\ \A k \in 1..Len(tts_log) :
                  /\ tts_log[k].item = "column"
                  /\ tts_log[k].title = columns[k].title
                  /\ tts_log[k].text = columns[k].content
           /\ Len(processed_files) <= Len(tts_log)
           /\ Len(processed_files) = Cardinality(AudioFiles)
           /\ pc \in {"done", "crashed"} => Len(tts_log) = Len(columns)
           /\ metadata.written =>
                  /\ Len(metadata.entries) <= Len(tts_log)
                  /\ Len(tts_log) = Len(columns)

\* A run over as many listed articles as the cap, one of them of several
\* paragraphs, has ended: a call was made for each, some failed, and the
\* metadata document has fewer entries than calls were made.
C28_Witness ==
    /\ prog \in Apps
    /\ pc = "done"
    /\ Len(columns) = max_columns_per_day
    /\ Len(tts_log) = max_columns_per_day
    /\ \E k \in 1..Len(columns) : Len(columns[k].content) > 1
    /\ \E k \in 1..Len(tts_log) : ~tts_log[k].ok
    /\ metadata.written
    /\ Len(metadata.entries) \in 1..(max_columns_per_day - 1)

(***************************************************************************)
(* Properties of main's schedule                                           *)
(***************************************************************************)
\* The scheduled times that have come: first_tick and every Period after it
TicksDue ==
    IF now < first_tick THEN 0 ELSE ((now - first_tick) \div Period) + 1

\* At most one run is in progress, the loop is inside the call that
\* started it, and the schedule has started no more runs than scheduled
\* times have come.
OneRunAtATime ==
    /\ active = (IF job = "idle" THEN 0 ELSE 1)
    /\ job # "idle" => loop_pc \in {"initial_run", "run_pending", "run_once"}
    /\ runs_sched <= TicksDue
    /\ ~enabled => runs_sched = 0

\* A run enters Listing from Idle only, and the loop's poll and sleep take
\* no step while a run is in progress.
StartsFromIdle ==
    /\ (job' = "listing" /\ job # "listing") => (job = "idle" /\ active = 0)
    /\ (job # "idle" /\ job' # "idle") => loop_pc' = loop_pc

LoopLeftByInterrupt ==
    (enabled /\ loop_pc \in {"poll", "run_pending", "sleep"}
        /\ loop_pc' \notin {"poll", "run_pending", "sleep"}) =>
        loop_pc' = "stopped"

\* C29: a run terminates. A run of process_daily_columns that has started
\* returns, whatever the listing page and whatever each request and each
\* synthesis call gave; every run main or the schedule starts returns to
\* Idle, unless the program is interrupted; with scheduling disabled main
\* ends; with scheduling enabled main never returns, and its poll loop is
\* left by the interrupt only.
C29_RunTerminates ==
    /\ (prog = "enhanced" /\ pc = "idle") ~> (pc = "done")
    /\ (job # "idle") ~> (job = "idle")
    /\ (loop_pc = "start" /\ ~enabled) ~> (loop_pc \in {"exited", "stopped"})
    /\ [](enabled => loop_pc # "exited")
    /\ [](~enabled => loop_pc \notin {"poll", "run_pending", "sleep"})
    /\ [][LoopLeftByInterrupt]_vars

\* A run over a page of cards has returned after a request that failed,
\* a synthesis call that failed and a metadata write that failed.
C29_Witness ==
    /\ prog = "enhanced"
    /\ pc = "done"
    /\ listing_fetch = "ok"
    /\ path = "cards"
    /\ Len(fetched) > Len(columns)
    /\ Len(columns) >= 2
    /\ \E k \in 1..Len(tts_log) : ~tts_log[k].ok
    /\ events[Len(events)] = "meta"
    /\ ~metadata.written

(***************************************************************************)
(* The extractor's specification: an application and an answer of the GET  *)
(* are drawn and get_column_content is called.                             *)
(***************************************************************************)
ExtractInit ==
    /\ eapp \in {"basic", "enhanced"}
    /\ epage \in Pages
    /\ eresult = NoneVal
    /\ ephase = "input"
    /\ SplitIdle
    /\ RunIdle
    /\ ElevenIdle
    /\ SchedIdle

GetColumnContent ==
    /\ ephase = "input"
    /\ eresult' = get_column_content(eapp, epage)
    /\ ephase' = "done"
    /\ UNCHANGED <<eapp, epage, splitVars, runVars, elevenVars, schedVars>>

ExtractNext == GetColumnContent

SpecExtract == ExtractInit /\ [][ExtractNext]_vars

(***************************************************************************)
(* Properties of get_column_content                                        *)
(***************************************************************************)
\* The paragraph texts of a container, each stripped, the blank ones
\* dropped, joined by a newline, in document order.
RECURSIVE ExpectedText(_)
ExpectedText(paragraphs) ==
    IF paragraphs = <<>> THEN <<>>
    ELSE LET first == strip(Head(paragraphs))
             rest == ExpectedText(Tail(paragraphs))
         IN  IF first = <<>> THEN rest
             ELSE IF rest = <<>> THEN first
             ELSE first \o <<"\n">> \o rest

HasText(paragraphs) ==
    \E k \in 1..Len(paragraphs) : \E j \in 1..Len(paragraphs[k]) :
        ~IsSpace(paragraphs[k][j])

\* The selectors of a document that match an element with a non-blank
\* paragraph
SelectorsWithText(doc) == {k \in DOMAIN doc : HasText(doc[k])}

\* C1 as stated: the result is the text of the element of the first
\* selector that matches an element with at least one non-blank paragraph.
C1_FirstSelectorWithText ==
    (ephase = "done" /\ epage.fetch = "ok"
        /\ SelectorsWithText(epage.doc) # {}) =>
        eresult = Str(ExpectedText(epage.doc[Least(SelectorsWithText(epage.doc))]))

\* C1 as amended: the first selector that matches any element decides. If
\* its element has a non-blank paragraph the result is exactly that
\* element's paragraph texts, stripped, blank ones dropped, joined by
\* newline in document order; if it has none the result is the sentinel,
\* whatever the later selectors match.
C1_FirstMatchingSelector ==
    (ephase = "done" /\ epage.fetch = "ok" /\ DOMAIN epage.doc # {}) =>
        LET content_div == epage.doc[Least(DOMAIN epage.doc)]
        IN  IF HasText(content_div)
            THEN eresult = Str(ExpectedText(content_div))
            ELSE eresult = Str(Sentinel)

\* The first matching selector's element holds two paragraphs with text,
\* one of them with whitespace to strip, and a later selector matches an
\* element with another text.
C1_Witness ==
    /\ ephase = "done"
    /\ epage.fetch = "ok"
    /\ Cardinality(DOMAIN epage.doc) >= 2
    /\ LET k == Least(DOMAIN epage.doc)
       IN  /\ Len(epage.doc[k]) = 2
           /\ \A j \in 1..2 : HasText(<<epage.doc[k][j]>>)
           /\ \E j \in 1..2 : strip(epage.doc[k][j]) # epage.doc[k][j]
           /\ \E m \in DOMAIN epage.doc :
                 m > k /\ HasText(epage.doc[m])
                       /\ ExpectedText(epage.doc[m]) # ExpectedText(epage.doc[k])
    /\ eresult = Str(<<"b", "\n", "a">>)

\* C2: for a fetched page in which no content selector matches any
\* element, get_column_content returns the sentinel string, as a value.
C2_SentinelOnNoMatch ==
    (ephase = "done" /\ epage.fetch = "ok" /\ DOMAIN epage.doc = {}) =>
        eresult = Str(Sentinel)

\* The enhanced application has extracted from a fetched page without a match.
C2_Witness ==
    /\ ephase = "done"
    /\ eapp = "enhanced"
    /\ epage.fetch = "ok"
    /\ DOMAIN epage.doc = {}
    /\ eresult.tag = "str"

(***************************************************************************)
(* The chunker's specification: a text and a max_length are drawn, the     *)
(* text is split, and one of the chunks is split again.                    *)
(***************************************************************************)
SplitInit ==
    /\ text \in StringsUpTo(MaxTextLen)
    /\ max_length \in 1..MaxMaxLength
    /\ chunks = <<>>
    /\ rechunk_of = <<>>
    /\ rechunked = <<>>
    /\ sphase = "input"
    /\ ExtractIdle
    /\ RunIdle
    /\ ElevenIdle
    /\ SchedIdle

SplitText ==
    /\ sphase = "input"
    /\ chunks' = split_text(text, max_length)
    /\ sphase' = "split"
    /\ UNCHANGED <<text, max_length, rechunk_of, rechunked, extractVars, runVars,
                   elevenVars, schedVars>>

Rechunk ==
    /\ sphase = "split"
    /\ \E k \in 1..Len(chunks) :
        /\ rechunk_of' = chunks[k]
        /\ rechunked' = split_text(chunks[k], max_length)
    /\ sphase' = "rechunked"
    /\ UNCHANGED <<text, max_length, chunks, extractVars, runVars, elevenVars,
                   schedVars>>

SplitNext == SplitText \/ Rechunk

SpecSplit == SplitInit /\ [][SplitNext]_vars

(***************************************************************************)
(* Properties of split_text                                                *)
(***************************************************************************)
\* The sentences split_text walks: the pieces of the regular expression
\* split, each stripped, the blank ones skipped (lines 217, 223-225).
Sentences(t) ==
    LET pieces == re_split(t)
    IN  SelectSeq([k \in 1..Len(pieces) |-> strip(pieces[k])],
                  LAMBDA s : s # <<>>)

\* A chunk cut at every occurrence of the separator ". "
RECURSIVE CutFrom(_, _, _, _)
CutFrom(c, i, start, acc) ==
    IF i > Len(c) THEN Append(acc, SubSeq(c, start, Len(c)))
    ELSE IF i < Len(c) /\ SubSeq(c, i, i + 1) = Separator
         THEN CutFrom(c, i + 2, i + 2, Append(acc, SubSeq(c, start, i - 1)))
         ELSE CutFrom(c, i + 1, start, acc)

SplitAtSeparator(c) == CutFrom(c, 1, 1, <<>>)

RECURSIVE Resplit(_)
Resplit(chs) ==
    IF chs = <<>> THEN <<>> ELSE SplitAtSeparator(Head(chs)) \o Resplit(Tail(chs))

\* C4: every returned chunk is at most max_length long, unless it is one
\* single sentence of the input that alone is longer than max_length; and
\* every such sentence is returned whole, as a chunk of its own.
C4_ChunkLengthBound ==
    sphase # "input" =>
        /\ \A k \in 1..Len(chunks) :
              Len(chunks[k]) > max_length => chunks[k] \in Range(Sentences(text))
        /\ \A s \in Range(Sentences(text)) :
              Len(s) > max_length => s \in Range(chunks)

\* A text split into several chunks, one of them an oversized sentence and
\* one of them within the bound.
C4_Witness ==
    /\ sphase = "split"
    /\ \E k \in 1..Len(chunks) : Len(chunks[k]) > max_length
    /\ \E k \in 1..Len(chunks) : Len(chunks[k]) <= max_length

\* C5: the chunks, read in order and cut at the inserted separators, are
\* exactly the non-blank sentences of the input in their order, and no
\* chunk is the empty string.
C5_SentencesPreserved ==
    sphase # "input" =>
        /\ Resplit(chunks) = Sentences(text)
        /\ \A k \in 1..Len(chunks) : chunks[k] # <<>>

\* Several chunks, one of them holding more than one sentence.
C5_Witness ==
    /\ sphase = "split"
    /\ Len(chunks) >= 2
    /\ \E k \in 1..Len(chunks) : Len(SplitAtSeparator(chunks[k])) >= 2

\* C6 as stated: split_text returns at least one chunk for every text.
C6_AlwaysAChunk == sphase # "input" => chunks # <<>>

\* C6 as amended: split_text returns at least one chunk exactly when the
\* text holds a non-blank sentence; for the empty text, for whitespace and
\* for terminators followed by whitespace it returns the empty list.
C6_ChunkIffSentence ==
    sphase # "input" => (chunks # <<>> <=> Sentences(text) # <<>>)

\* A text of terminators and whitespace, for which nothing is returned.
C6_Witness ==
    /\ sphase = "split"
    /\ chunks = <<>>
    /\ \E k \in 1..Len(text) : IsTerminator(text[k])

\* C7: splitting a returned chunk again with the same max_length returns
\* that chunk alone.
C7_Idempotent == sphase = "rechunked" => rechunked = <<rechunk_of>>

\* A chunk of more than one sentence, out of several chunks, split again.
C7_Witness ==
    /\ sphase = "rechunked"
    /\ Len(chunks) >= 2
    /\ Len(SplitAtSeparator(rechunk_of)) >= 2

====
